---- MODULE Spec2Model ----
(***************************************************************************)
(* kn_sock connection management layer.                                    *)
(*                                                                         *)
(* Part 1: TCPConnectionPool (src/kn_sock/tcp.py).  Threads ("callers")    *)
(* call connection(), leave the `with` scope (_PooledConn.__exit__ ->      *)
(* _release), call _PooledConn.close() and call closeall().  Every method  *)
(* body runs under self._lock.  A step of the model is: a caller obtains   *)
(* the lock (entering a `with self._lock:` block or returning from         *)
(* self._lock.acquire()), or the holder of the lock runs the code up to    *)
(* the point where the lock is given up.  A caller that has called a       *)
(* method and is still blocked on the lock has changed nothing, so it is   *)
(* not told apart from one that has not called yet.                        *)
(***************************************************************************)
EXTENDS Integers, Sequences, FiniteSets, TLC

\* ------------------------------------------------------------------ bounds
NumCallers == 2      \* threads using the pool
MaxTime == 2         \* the clock time.time() runs over 0..MaxTime

\* --------------------------------------------------- pool configuration
max_size == 1        \* self.max_size
idle_timeout == 1    \* self.idle_timeout

Callers == 1..NumCallers
\* Socket objects.  A socket that is neither in self._pool nor held by a
\* caller is unreachable garbage, so the factory may hand out its identity
\* again; at most NumCallers sockets are reachable at a time, and one more
\* identity is free for the socket being created.
ConnIds == 1..(NumCallers + 1)
NoConn == 0
Free == 0

(***************************************************************************)
(* Part 2: the WebSocket engine (src/kn_sock/websocket.py).                *)
(*                                                                         *)
(* Byte strings.  Payloads are up to 65536 bytes long, so a byte string is *)
(* kept as a sequence of runs: the run [n |-> k, p |-> <<b0,b1,b2,b3>>]    *)
(* stands for the k bytes b0 b1 b2 b3 b0 b1 ... (byte j of the run is      *)
(* p[(j % 4) + 1]).  The positions of p a run shorter than 4 does not use  *)
(* are 0, and no run is empty.  A text is the sequence of its code points, *)
(* kept the same way; a run of a text is ASCII (code points below 0x80)    *)
(* or repeats one code point of U+0080..U+07FF.                            *)
(***************************************************************************)
Min(a, b) == IF a <= b THEN a ELSE b

Run(k, q) == [n |-> k, p |-> [i \in 1..4 |-> IF i <= k THEN q[i] ELSE 0]]

\* bytes literal b"..."
Lit(bs) == [i \in 1..Len(bs) |-> Run(1, <<bs[i], 0, 0, 0>>)]

RECURSIVE RLen(_)
\* len(bytes)
RLen(r) == IF r = <<>> THEN 0 ELSE r[1].n + RLen(Tail(r))

\* the pattern of a run seen from its k-th byte on
RotP(q, k) == [i \in 1..4 |-> q[((i - 1 + k) % 4) + 1]]

RECURSIVE Take(_, _)
\* bytes[:k]
Take(r, k) ==
    IF k <= 0 \/ r = <<>> THEN <<>>
    ELSE IF r[1].n <= k THEN <<r[1]>> \o Take(Tail(r), k - r[1].n)
    ELSE <<Run(k, r[1].p)>>

RECURSIVE Drop(_, _)
\* bytes[k:]
Drop(r, k) ==
    IF k <= 0 \/ r = <<>> THEN r
    ELSE IF r[1].n <= k THEN Drop(Tail(r), k - r[1].n)
    ELSE <<Run(r[1].n - k, RotP(r[1].p, k))>> \o Tail(r)

RECURSIVE ByteAt(_, _)
\* bytes[i], 0 <= i < len(bytes)
ByteAt(r, i) ==
    IF i < r[1].n THEN r[1].p[(i % 4) + 1] ELSE ByteAt(Tail(r), i - r[1].n)

\* a ^ b for a, b < 16
XorNibble(a, b) ==
    ((a + b) % 2) + 2 * (((a \div 2) + (b \div 2)) % 2)
    + 4 * (((a \div 4) + (b \div 4)) % 2) + 8 * (((a \div 8) + (b \div 8)) % 2)

\* a ^ b for a, b < 65536
BitXor(a, b) ==
    XorNibble(a % 16, b % 16)
    + 16 * XorNibble((a \div 16) % 16, (b \div 16) % 16)
    + 256 * XorNibble((a \div 256) % 16, (b \div 256) % 16)
    + 4096 * XorNibble(a \div 4096, b \div 4096)

RECURSIVE BE(_, _)
\* struct.pack of an unsigned integer in network order, k bytes
BE(v, k) == IF k = 0 THEN <<>> ELSE Append(BE(v \div 256, k - 1), v % 256)

RECURSIVE Unpack(_)
\* struct.unpack("!H" / "!Q", bytes)[0]
Unpack(r) ==
    IF r = <<>> THEN 0
    ELSE ByteAt(r, RLen(r) - 1) + 256 * Unpack(Take(r, RLen(r) - 1))

\* the positions of its pattern a run uses
Used(run) == 1..Min(run.n, 4)

\* every code point (byte) of the run is below 0x80
AsciiRun(run) == \A k \in Used(run) : run.p[k] < 128

\* the run of bytes is a whole number of copies of one two-byte character
TwoByteEncoded(run) ==
    /\ run.n % 2 = 0
    /\ 194 <= run.p[1] /\ run.p[1] <= 223
    /\ 128 <= run.p[2] /\ run.p[2] <= 191
    /\ \A k \in Used(run) : run.p[k] = run.p[((k - 1) % 2) + 1]

\* str.encode("utf-8"): one byte for a code point below 0x80, the two bytes
\* 110xxxxx 10xxxxxx for one below 0x800
Utf8EncodeRun(run) ==
    IF AsciiRun(run) THEN run
    ELSE LET c == run.p[1]
             hi == 192 + (c \div 64)
             lo == 128 + (c % 64)
         IN Run(2 * run.n, <<hi, lo, hi, lo>>)

Utf8Encode(text) == [i \in DOMAIN text |-> Utf8EncodeRun(text[i])]

\* bytes.decode("utf-8") succeeds
Utf8Valid(r) == \A i \in DOMAIN r : AsciiRun(r[i]) \/ TwoByteEncoded(r[i])

Utf8DecodeRun(run) ==
    IF AsciiRun(run) THEN run
    ELSE LET c == (run.p[1] - 192) * 64 + (run.p[2] - 128)
         IN Run(run.n \div 2, <<c, c, c, c>>)

\* bytes.decode("utf-8") of a valid string
Utf8Decode(r) == [i \in DOMAIN r |-> Utf8DecodeRun(r[i])]

\* ------------------------------------------------------------ frame codec
\* send, websocket.py:53-58 (295-318): which of the three length forms the
\* header takes
LengthFormOffByOne(length) ==
    IF length <= 126 THEN 7 ELSE IF length < 65536 THEN 16 ELSE 64

LengthForm(length) ==
    IF length < 126 THEN 7 ELSE IF length < 65536 THEN 16 ELSE 64

\* header = b"\x81" + struct.pack(...)
HeaderNonMinimal(length) ==
    IF length < 65536 THEN <<129, 126>> \o BE(length, 2)
    ELSE <<129, 127>> \o BE(length, 8)

Header(length) ==
    LET form == LengthForm(length)
    IN  IF form = 7 THEN <<129, length>>
        ELSE IF form = 16 THEN <<129, 126>> \o BE(length, 2)
        ELSE <<129, 127>> \o BE(length, 8)

\* WebSocketConnection.send: the bytes handed to conn.sendall
Send(message) ==
    LET payload == Utf8Encode(message)
    IN  Lit(Header(RLen(payload))) \o payload

\* AsyncWebSocketConnection.send: the bytes handed to writer.write
AsyncSendNoLength(message) == Lit(<<129>>) \o Utf8Encode(message)

AsyncSend(message) ==
    LET payload == Utf8Encode(message)
    IN  Lit(Header(RLen(payload))) \o payload

\* the index into the mask key used for payload byte i
MaskIndexFixed(i) == 0

MaskIndex(i) == i % 4

RECURSIVE XorMask(_, _, _)
\* for i in range(length): data[i] ^= mask[i % 4], on data whose first byte
\* has index off
XorMask(data, mask, off) ==
    IF data = <<>> THEN <<>>
    ELSE <<Run(data[1].n,
               [k \in 1..4 |->
                   BitXor(data[1].p[k], mask[MaskIndex(off + k - 1) + 1])])>>
         \o XorMask(Tail(data), mask, off + data[1].n)

\* A frame as a peer that masks writes it (RFC 6455 5.2, 5.3): FIN + text,
\* MASK bit + length, the mask key, payload byte i XOR key[i % 4].  No code
\* of this package writes such a frame; it is an input of recv.
MaskedFrame(message, key) ==
    LET payload == Utf8Encode(message)
        length == RLen(payload)
        lenbytes == IF length < 126 THEN <<128 + length>>
                    ELSE IF length < 65536 THEN <<128 + 126>> \o BE(length, 2)
                    ELSE <<128 + 127>> \o BE(length, 8)
        masked == [i \in DOMAIN payload |->
                     Run(payload[i].n,
                         [k \in 1..4 |->
                            BitXor(payload[i].p[k],
                                   key[((RLen(SubSeq(payload, 1, i - 1)) + k - 1) % 4) + 1])])]
    IN  Lit(<<129>> \o lenbytes \o key) \o masked

\* ---------------------------------------------------------------- reads
\* The receiving side of a Transport: buf, the bytes that have arrived and
\* are not read yet; eof, the peer has closed its end; closed, close() has
\* been called on the local socket; chunk, the most bytes one socket.recv
\* returns (0: no limit).
Stream(b, e, c, k) == [buf |-> b, eof |-> e, closed |-> c, chunk |-> k]

\* socket.recv(n): up to n bytes; b"" for n = 0 and at end of stream; waits
\* while nothing has arrived
SockRecv(buf, eof, n, chunk) ==
    LET m == IF chunk = 0 THEN n ELSE Min(n, chunk)
    IN  [blocked |-> n > 0 /\ buf = <<>> /\ ~eof,
         data |-> Take(buf, m),
         rest |-> Drop(buf, m)]

\* StreamReader.readexactly(n): exactly n bytes, IncompleteReadError when
\* the stream ends before; waits while fewer than n have arrived
ReadExactly(buf, eof, n) ==
    [blocked |-> RLen(buf) < n /\ ~eof,
     incomplete |-> RLen(buf) < n /\ eof,
     data |-> Take(buf, n),
     rest |-> Drop(buf, n)]

\* The outcomes of a call of recv: ret, the text returned; exc, the
\* exception raised; disc, the call has set self.open = False; rest, the
\* bytes left unread; blocked, the call waits for bytes and has no outcome
\* yet.
NoText == <<Run(1, <<-1, 0, 0, 0>>)>>
EmptyText == <<>>
Blocked(st) ==
    [ret |-> NoText, exc |-> "none", disc |-> FALSE, rest |-> st.buf, blocked |-> TRUE]
Raised(e, rest) ==
    [ret |-> NoText, exc |-> e, disc |-> FALSE, rest |-> rest, blocked |-> FALSE]
Returned(text, rest) ==
    [ret |-> text, exc |-> "none", disc |-> FALSE, rest |-> rest, blocked |-> FALSE]
Disconnected(rest) ==
    [ret |-> EmptyText, exc |-> "none", disc |-> TRUE, rest |-> rest, blocked |-> FALSE]

\* mask = conn.recv(4), as the bytes mask[0..3] (0 where the read was short)
MaskKey(r) == [k \in 1..4 |-> IF k <= RLen(r) THEN ByteAt(r, k - 1) ELSE 0]

\* data.decode("utf-8"): a payload of no bytes decodes to the empty text
DecodedEmptyCloses(data, rest) ==
    IF data = <<>> THEN Disconnected(rest)
    ELSE IF Utf8Valid(data) THEN Returned(Utf8Decode(data), rest)
    ELSE Raised("UnicodeDecodeError", rest)
Decoded(data, rest) ==
    IF Utf8Valid(data) THEN Returned(Utf8Decode(data), rest)
    ELSE Raised("UnicodeDecodeError", rest)

\* the number of bytes of the extended length field
ExtLen(len7) == IF len7 = 126 THEN 2 ELSE IF len7 = 127 THEN 8 ELSE 0

\* WebSocketConnection.recv, websocket.py:77-96, as one call on the stream
\* st.  socket.recv on a closed socket raises OSError; a read that returns
\* fewer bytes than asked for is not repeated.
Recv(st) ==
    IF st.closed THEN Raised("OSError", st.buf)
    ELSE
    LET first2 == SockRecv(st.buf, st.eof, 2, st.chunk) IN
    IF first2.blocked THEN Blocked(st)
    ELSE IF first2.data = <<>> THEN Disconnected(first2.rest)
    ELSE IF RLen(first2.data) # 2 THEN Raised("ValueError", first2.rest)
    ELSE
    LET mask_len == ByteAt(first2.data, 1)
        masked == mask_len >= 128
        len7 == mask_len % 128
        ext == SockRecv(first2.rest, st.eof, ExtLen(len7), st.chunk)
    IN
    IF ext.blocked THEN Blocked(st)
    ELSE IF RLen(ext.data) # ExtLen(len7) THEN Raised("struct.error", ext.rest)
    ELSE
    LET length == IF ExtLen(len7) = 0 THEN len7 ELSE Unpack(ext.data)
        mask == SockRecv(ext.rest, st.eof, IF masked THEN 4 ELSE 0, st.chunk)
        data == SockRecv(mask.rest, st.eof, length, st.chunk)
    IN
    IF mask.blocked \/ data.blocked THEN Blocked(st)
    ELSE IF masked
    THEN IF \/ length > RLen(data.data)
            \/ RLen(mask.data) < 4 /\ length > RLen(mask.data)
         THEN Raised("IndexError", data.rest)
         ELSE Decoded(XorMask(data.data, MaskKey(mask.data), 0), data.rest)
    ELSE Decoded(data.data, data.rest)

\* AsyncWebSocketConnection.recv, websocket.py:335-354, as one call on the
\* stream st.  Every read is readexactly; after writer.close() the reader
\* is fed end-of-stream, so st.eof holds then.
AsyncRecv(st) ==
    LET first2 == ReadExactly(st.buf, st.eof, 2) IN
    IF first2.blocked THEN Blocked(st)
    ELSE IF first2.incomplete THEN Raised("IncompleteReadError", <<>>)
    ELSE IF first2.data = <<>> THEN Disconnected(first2.rest)
    ELSE
    LET mask_len == ByteAt(first2.data, 1)
        masked == mask_len >= 128
        len7 == mask_len % 128
        ext == ReadExactly(first2.rest, st.eof, ExtLen(len7))
    IN
    IF ext.blocked THEN Blocked(st)
    ELSE IF ext.incomplete THEN Raised("IncompleteReadError", <<>>)
    ELSE
    LET length == IF ExtLen(len7) = 0 THEN len7 ELSE Unpack(ext.data)
        mask == ReadExactly(ext.rest, st.eof, IF masked THEN 4 ELSE 0)
        data == ReadExactly(mask.rest, st.eof, length)
    IN
    IF mask.blocked \/ (~mask.incomplete /\ data.blocked) THEN Blocked(st)
    ELSE IF mask.incomplete \/ data.incomplete THEN Raised("IncompleteReadError", <<>>)
    ELSE IF masked
    THEN Decoded(XorMask(data.data, MaskKey(mask.data), 0), data.rest)
    ELSE Decoded(data.data, data.rest)

\* ---------------------------------------------- inputs of the frame codec
\* the payload lengths
Lengths == {0, 1, 125, 126, 65535, 65536}

\* "Hi!?" repeated, L bytes
AsciiText(L) == IF L = 0 THEN <<>> ELSE <<Run(L, <<72, 105, 33, 63>>)>>

\* L - 2 bytes of the same followed by U+00E9, two bytes
MixedText(L) == AsciiText(L - 2) \o <<Run(1, <<233, 0, 0, 0>>)>>

Texts == {AsciiText(L) : L \in Lengths} \cup {MixedText(L) : L \in Lengths \ {0, 1}}

MaskKeys == {<<0, 0, 0, 0>>, <<55, 250, 33, 61>>, <<255, 255, 255, 255>>}

Flavours == {"sync", "async"}
Roles == {"client", "server"}

\* one byte per read, or no limit
Chunks == {0, 1}

NoResult == Raised("none", <<>>)

NoCodec ==
    [stage |-> "off", text |-> <<>>, key |-> <<0, 0, 0, 0>>, role |-> "server",
     sflavour |-> "sync", rflavour |-> "sync", chunk |-> 0, enc |-> "none",
     wire |-> <<>>, res |-> NoResult]

CodecInputs ==
    {[NoCodec EXCEPT !.stage = "input", !.text = t, !.key = k, !.role = r,
                     !.sflavour = sf, !.rflavour = rf, !.chunk = ch] :
        t \in Texts, k \in MaskKeys, r \in Roles, sf \in Flavours,
        rf \in Flavours, ch \in Chunks}

\* ------------------------------------------------ sessions and the server
\* The connections of the model: each is absent until the accept loop or a
\* connect call creates it.
Sessions == {1, 2}

\* frames kept unread in a connection's receive buffer
MaxBuffered == 1

\* the texts sent and received on connections
WsTexts == {<<Run(1, <<65, 0, 0, 0>>)>>}

\* texts written by the peer's send() and not yet returned by recv()
MaxInFlight == 2

\* the texts a peer sends over a Transport that delivers in pieces: "A", "BC"
StreamTexts == {<<Run(1, <<65, 0, 0, 0>>)>>, <<Run(2, <<66, 67, 0, 0>>)>>}

\* the frames a peer sends
PeerFrames ==
    {Send(t) : t \in WsTexts} \cup {MaskedFrame(t, <<55, 250, 33, 61>>) : t \in WsTexts}

\* the length of the frame that starts a buffer of whole frames
FrameLen(buf) ==
    LET len7 == ByteAt(buf, 1) % 128
        ext == Take(Drop(buf, 2), ExtLen(len7))
    IN  2 + ExtLen(len7) + (IF ByteAt(buf, 1) >= 128 THEN 4 ELSE 0)
          + (IF ExtLen(len7) = 0 THEN len7 ELSE Unpack(ext))

RECURSIVE FrameCount(_)
\* the number of frames in a buffer of whole frames
FrameCount(buf) ==
    IF buf = <<>> THEN 0 ELSE 1 + FrameCount(Drop(buf, FrameLen(buf)))

\* b"\x88\x00"
CloseFrame == Lit(<<136, 0>>)

NoBytes == <<>>

\* A connection object: kind, "none" (not created), "sync"
\* (WebSocketConnection) or "async" (AsyncWebSocketConnection); role; open,
\* self.open; sock, the state of self.conn / self.writer; inbuf, the bytes
\* that have arrived and are unread; eof, the peer has closed its end (no
\* more bytes arrive); pending, the bytes the peer's send() calls have
\* written that have not arrived yet; sent, the texts of those calls that
\* no recv() has returned a text for yet (observation only).
NoSession ==
    [kind |-> "none", role |-> "none", open |-> FALSE, sock |-> "none",
     inbuf |-> <<>>, eof |-> FALSE, pending |-> <<>>, sent |-> <<>>]

\* __init__, websocket.py:30-33 and 290-293
NewSession(k, r) ==
    [kind |-> k, role |-> r, open |-> TRUE, sock |-> "open",
     inbuf |-> <<>>, eof |-> FALSE, pending |-> <<>>, sent |-> <<>>]

\* the last call made on a connection: s, op, what it returned and raised,
\* the bytes it put on the Transport, whether it released (closed) the
\* Transport's descriptor
NoCall ==
    [s |-> 0, op |-> "none", ret |-> NoText, exc |-> "none",
     wrote |-> NoBytes, released |-> FALSE]
Call(s, o, r, e, w, rel) ==
    [s |-> s, op |-> o, ret |-> r, exc |-> e, wrote |-> w, released |-> rel]

\* poll intervals counted after the shutdown event is set
MaxLate == 2

\* The accept loop of start_websocket_server: state, "listening" (at the
\* top of the loop, websocket.py:197), "accepting" (in sock.accept()),
\* "handshake" (in _handshake(conn)) or "stopped" (the loop is left,
\* sock.close() done); shutdown, shutdown_event.is_set(); cur, the
\* connection being shaken hands with; exc, the exception that ended the
\* loop; late, the whole poll intervals (1.0 s) that have passed since the
\* event was set with the loop still running; after, the connections
\* accepted since the event was set (late, after: observation only).
SrvInit ==
    [state |-> "listening", shutdown |-> FALSE, cur |-> 0, exc |-> "none",
     late |-> 0, after |-> 0]

\* ------------------------------------------------------------- handshake
\* Characters are one-character strings; ord() of those of the base64
\* alphabet and of "-".
B64Alphabet ==
    <<"A", "B", "C", "D", "E", "F", "G", "H", "I", "J", "K", "L", "M",
      "N", "O", "P", "Q", "R", "S", "T", "U", "V", "W", "X", "Y", "Z",
      "a", "b", "c", "d", "e", "f", "g", "h", "i", "j", "k", "l", "m",
      "n", "o", "p", "q", "r", "s", "t", "u", "v", "w", "x", "y", "z",
      "0", "1", "2", "3", "4", "5", "6", "7", "8", "9", "+", "/">>

\* str.encode() of one character
Ord(ch) ==
    IF ch = "=" THEN 61
    ELSE IF ch = "-" THEN 45
    ELSE LET i == CHOOSE j \in 1..64 : B64Alphabet[j] = ch
         IN  IF i <= 26 THEN 64 + i
             ELSE IF i <= 52 THEN 96 + (i - 26)
             ELSE IF i <= 62 THEN 47 + (i - 52)
             ELSE IF i = 63 THEN 43 ELSE 47

\* (key + GUID).encode()
Encode(chars) == [i \in 1..Len(chars) |-> Ord(chars[i])]

\* GUID = "258EAFA5-E914-47DA-95CA-C5AB0DC85B11", websocket.py:9
GUID ==
    <<"2", "5", "8", "E", "A", "F", "A", "5", "-", "E", "9", "1", "4", "-",
      "4", "7", "D", "A", "-", "9", "5", "C", "A", "-",
      "C", "5", "A", "B", "0", "D", "C", "8", "5", "B", "1", "1">>

\* hashlib.sha1 (FIPS 180-4).  A 32-bit word is <<hi, lo>>, two 16-bit
\* halves.
BitAnd(a, b) == (a + b - BitXor(a, b)) \div 2
WXor(x, y) == <<BitXor(x[1], y[1]), BitXor(x[2], y[2])>>
WAnd(x, y) == <<BitAnd(x[1], y[1]), BitAnd(x[2], y[2])>>
WNot(x) == <<65535 - x[1], 65535 - x[2]>>
\* x | y for words with no bit in common
WOrDisjoint(x, y) == <<x[1] + y[1], x[2] + y[2]>>
WAdd(x, y) ==
    LET lo == x[2] + y[2]
    IN  <<(x[1] + y[1] + (lo \div 65536)) % 65536, lo % 65536>>
\* rotate left by n, 0 < n < 16
RotlSmall(x, n) ==
    LET m == 2 ^ n
        d == 2 ^ (16 - n)
    IN  <<((x[1] * m) % 65536) + (x[2] \div d), ((x[2] * m) % 65536) + (x[1] \div d)>>
Rotl(x, n) == IF n < 16 THEN RotlSmall(x, n) ELSE RotlSmall(<<x[2], x[1]>>, n - 16)

\* the message padded to whole 64-byte blocks
Sha1Pad(m) ==
    LET zeros == (55 - Len(m)) % 64
    IN  m \o <<128>> \o [i \in 1..zeros |-> 0] \o BE(8 * Len(m), 8)

\* word t (0..15) of block b (0..) of the padded message
BlockWord(pm, b, t) ==
    LET o == 64 * b + 4 * t
    IN  <<pm[o + 1] * 256 + pm[o + 2], pm[o + 3] * 256 + pm[o + 4]>>

RECURSIVE ScheduleTo(_, _)
\* the message schedule extended to n words
ScheduleTo(w, n) ==
    IF Len(w) >= n THEN w
    ELSE LET t == Len(w) + 1
         IN  ScheduleTo(Append(w,
                 Rotl(WXor(WXor(w[t - 3], w[t - 8]), WXor(w[t - 14], w[t - 16])), 1)), n)

\* the message schedule W[0..79], from its first 16 words
Schedule(w16) == ScheduleTo(ScheduleTo(ScheduleTo(ScheduleTo(w16, 32), 48), 64), 80)

Sha1F(t, b, c, d) ==
    IF t < 20 THEN WOrDisjoint(WAnd(b, c), WAnd(WNot(b), d))
    ELSE IF t < 40 \/ t >= 60 THEN WXor(WXor(b, c), d)
    ELSE WOrDisjoint(WAnd(b, c), WAnd(d, WXor(b, c)))

Sha1K(t) ==
    IF t < 20 THEN <<23170, 31129>>
    ELSE IF t < 40 THEN <<28377, 60321>>
    ELSE IF t < 60 THEN <<36635, 48348>>
    ELSE <<51810, 49622>>

\* one round: the working variables <<a, b, c, d, e>> after round t
Round(v, w, t) ==
    LET tmp == WAdd(WAdd(WAdd(Rotl(v[1], 5), Sha1F(t, v[2], v[3], v[4])),
                         WAdd(v[5], Sha1K(t))), w[t + 1])
    IN  <<tmp, v[1], Rotl(v[2], 30), v[3], v[4]>>

RECURSIVE Rounds(_, _, _, _)
\* rounds t..to-1 on the working variables v
Rounds(v, w, t, to) ==
    IF t = to \/ Len(v) # 5 THEN v ELSE Rounds(Round(v, w, t), w, t + 1, to)

RECURSIVE Sha1Blocks(_, _, _)
\* the hash value after blocks b.. of the padded message
Sha1Blocks(h, pm, b) ==
    IF 64 * b >= Len(pm) \/ Len(h) # 5 THEN h
    ELSE LET w == Schedule([t \in 1..16 |-> BlockWord(pm, b, t - 1)])
             v1 == Rounds(h, w, 0, 20)
             v2 == Rounds(v1, w, 20, 40)
             v3 == Rounds(v2, w, 40, 60)
             v == Rounds(v3, w, 60, 80)
         IN  Sha1Blocks([i \in 1..5 |-> WAdd(h[i], v[i])], pm, b + 1)

\* hashlib.sha1(m).digest(): 20 bytes
Sha1(m) ==
    LET h == Sha1Blocks(<<<<26437, 8961>>, <<61389, 43913>>, <<39098, 56574>>,
                          <<4146, 21622>>, <<50130, 57840>>>>, Sha1Pad(m), 0)
    IN  [i \in 1..20 |->
            LET x == h[((i - 1) \div 4) + 1]
                k == (i - 1) % 4
            IN  IF k = 0 THEN x[1] \div 256
                ELSE IF k = 1 THEN x[1] % 256
                ELSE IF k = 2 THEN x[2] \div 256
                ELSE x[2] % 256]

RECURSIVE B64Encode(_)
\* base64.b64encode(bytes).decode(), as a string
B64Encode(bs) ==
    IF bs = <<>> THEN ""
    ELSE LET b1 == bs[1]
             b2 == IF Len(bs) >= 2 THEN bs[2] ELSE 0
             b3 == IF Len(bs) >= 3 THEN bs[3] ELSE 0
             c1 == B64Alphabet[(b1 \div 4) + 1]
             c2 == B64Alphabet[((b1 % 4) * 16 + (b2 \div 16)) + 1]
             c3 == IF Len(bs) >= 2
                   THEN B64Alphabet[((b2 % 16) * 4 + (b3 \div 64)) + 1] ELSE "="
             c4 == IF Len(bs) >= 3 THEN B64Alphabet[(b3 % 64) + 1] ELSE "="
         IN  c1 \o c2 \o c3 \o c4 \o B64Encode(SubSeq(bs, 4, Len(bs)))

\* accept = base64.b64encode(hashlib.sha1((key + GUID).encode()).digest()).decode(),
\* websocket.py:150
AcceptValueGuidFirst(key) == B64Encode(Sha1(Encode(GUID \o key)))

AcceptValue(key) == B64Encode(Sha1(Encode(key \o GUID)))

\* the Sec-WebSocket-Key values of the requests
SampleKey ==
    <<"d", "G", "h", "l", "I", "H", "N", "h", "b", "X", "B", "s", "Z", "S",
      "B", "u", "b", "2", "5", "j", "Z", "Q", "=", "=">>
OtherKey ==
    <<"x", "3", "J", "J", "H", "M", "b", "D", "L", "1", "E", "z", "L", "k",
      "h", "9", "G", "B", "h", "X", "D", "w", "=", "=">>
ShortKey == <<"Z", "m", "9", "v">>
EmptyValue == <<>>

HsKeys == {SampleKey, OtherKey, ShortKey, EmptyValue}

\* header names and k.lower()
HsNames == {"Sec-WebSocket-Key", "sec-websocket-key", "SEC-WEBSOCKET-KEY", "Host"}
LowerIdentity(name) == name

Lower(name) == IF name = "Host" THEN "host" ELSE "sec-websocket-key"

HeaderLine(n, v) == [name |-> n, value |-> v]

\* the header lines of a request (the request line left out)
HsLines ==
    {<<HeaderLine(n, v)>> : n \in HsNames, v \in HsKeys}
    \cup {<<HeaderLine("Host", ShortKey), HeaderLine(n, v)>> : n \in HsNames, v \in HsKeys}
    \cup {<<HeaderLine("Sec-WebSocket-Key", SampleKey), HeaderLine(n, v)>> :
             n \in HsNames, v \in HsKeys}

\* A request: delim, the end-of-headers mark arrives before the end of the
\* stream; lines, its header lines; fault, "reset" when conn.recv raises
\* before the mark has arrived, "garbled" when the bytes received are not
\* UTF-8 (they have no header lines then), else "none".
HsRequests ==
    {[delim |-> d, lines |-> l, fault |-> "none"] : d \in BOOLEAN, l \in HsLines}
    \cup {[delim |-> FALSE, lines |-> l, fault |-> "reset"] :
             l \in {<<>>, <<HeaderLine("Sec-WebSocket-Key", SampleKey)>>}}
    \cup {[delim |-> TRUE, lines |-> <<>>, fault |-> "garbled"]}

\* the requests clients of the server send: a valid one, one without key,
\* one cut off by end of stream, one cut off by a reset, one that is not
\* UTF-8
ServerRequests ==
    {[delim |-> TRUE, lines |-> <<HeaderLine("Sec-WebSocket-Key", SampleKey)>>, fault |-> "none"],
     [delim |-> TRUE, lines |-> <<HeaderLine("Host", ShortKey)>>, fault |-> "none"],
     [delim |-> FALSE, lines |-> <<HeaderLine("Sec-WebSocket-Key", SampleKey)>>, fault |-> "none"],
     [delim |-> FALSE, lines |-> <<>>, fault |-> "reset"],
     [delim |-> TRUE, lines |-> <<>>, fault |-> "garbled"]}

\* What _handshake writes: status 0 stands for nothing written.
NoResponse == [status |-> 0, upgrade |-> "", connection |-> "", accept |-> ""]

\* "HTTP/1.1 101 Switching Protocols", "Upgrade: websocket",
\* "Connection: Upgrade", f"Sec-WebSocket-Accept: {accept}", websocket.py:151-156
Response101(accept) ==
    [status |-> 101, upgrade |-> "websocket", connection |-> "Upgrade", accept |-> accept]
\* The status lines of the responses a client reads:
\* "HTTP/1.1 101 Switching Protocols", "HTTP/1.1 400 Bad Request",
\* "HTTP/1.1 200 OK 101", "HTTP/1.1 503 Busy" and "101".
Line101 ==
    <<"H", "T", "T", "P", "/", "1", ".", "1", " ", "1", "0", "1", " ", "S", "w", "i", "t",
      "c", "h", "i", "n", "g", " ", "P", "r", "o", "t", "o", "c", "o", "l", "s">>
Line400 ==
    <<"H", "T", "T", "P", "/", "1", ".", "1", " ", "4", "0", "0", " ", "B", "a", "d", " ",
      "R", "e", "q", "u", "e", "s", "t">>
Line200Tail101 ==
    <<"H", "T", "T", "P", "/", "1", ".", "1", " ", "2", "0", "0", " ", "O", "K", " ",
      "1", "0", "1">>
Line503 ==
    <<"H", "T", "T", "P", "/", "1", ".", "1", " ", "5", "0", "3", " ", "B", "u", "s", "y">>
LineBare101 == <<"1", "0", "1">>

StatusLines == {Line101, Line400, Line200Tail101, Line503, LineBare101}

\* the Sec-WebSocket-Accept values of a response: the one derived from the
\* client's key, another one, none
ClientAccepts == {"s3pPLMBiTxaQ9kYGzzhZRbK+xOo=", "HSmrc0sMlYUkAGmm5OPpG2HaGWk=", ""}

\* A response as the client reads it: delim, b"\r\n\r\n" arrives before
\* the end of the stream; line, what precedes the first b"\r\n"; accept.
ClientResponses ==
    {[delim |-> d, line |-> l, accept |-> a] :
        d \in BOOLEAN, l \in StatusLines, a \in ClientAccepts}

NoClientResponse == [delim |-> FALSE, line |-> <<>>, accept |-> ""]

\* b"101" in resp.split(b"\r\n", 1)[0], websocket.py:268 and 428
StatusOkAtCode(line) == Len(line) >= 12 /\ SubSeq(line, 10, 12) = <<"1", "0", "1">>

StatusOk(line) == \E i \in 1..(Len(line) - 2) : SubSeq(line, i, i + 2) = <<"1", "0", "1">>

\* connect_websocket / async_connect_websocket from the first read of the
\* response on, websocket.py:261-270 and 422-430: out, "session" (a
\* connection object is returned) or the exception raised; sock, the state
\* of the socket the call opened
ClientHandshakeResult(resp) ==
    IF ~resp.delim THEN [out |-> "ConnectionError", sock |-> "open"]
    ELSE IF ~StatusOk(resp.line) THEN [out |-> "ConnectionError", sock |-> "open"]
    ELSE [out |-> "session", sock |-> "open"]

NoHs == [stage |-> "off", req |-> [delim |-> FALSE, lines |-> <<>>, fault |-> "none"],
         ok |-> FALSE, exc |-> "none", resp |-> NoResponse,
         kind |-> "sync", cresp |-> NoClientResponse, out |-> "none", sock |-> "none"]

RECURSIVE HeaderGet(_, _)
\* headers.get(k) after `headers[k.lower()] = v` for each line: the value
\* of the last line of that name, <<>> for none
HeaderGet(lines, k) ==
    IF lines = <<>> THEN <<>>
    ELSE IF Lower(lines[Len(lines)].name) = k THEN lines[Len(lines)].value
    ELSE HeaderGet(SubSeq(lines, 1, Len(lines) - 1), k)

\* _handshake(conn), websocket.py:119-158: its return value (ok), the
\* exception that leaves it (exc) and the response it sends
HandshakeResult(req) ==
    LET key == HeaderGet(req.lines, "sec-websocket-key")
    IN  IF ~req.delim
        THEN IF req.fault = "reset"
             THEN [ok |-> FALSE, exc |-> "ConnectionResetError", resp |-> NoResponse]
             ELSE [ok |-> FALSE, exc |-> "none", resp |-> NoResponse]
        ELSE IF req.fault = "garbled"
        THEN [ok |-> FALSE, exc |-> "UnicodeDecodeError", resp |-> NoResponse]
        ELSE IF key = <<>> THEN [ok |-> FALSE, exc |-> "none", resp |-> NoResponse]
        ELSE [ok |-> TRUE, exc |-> "none", resp |-> Response101(AcceptValue(key))]

VARIABLES
    pool,      \* self._pool: sequence of <<conn, last_used_time>>
    used,      \* self._used
    lock,      \* self._lock: Free, or the caller holding it
    now,       \* the value time.time() returns
    pc,        \* per caller: where it is in the pool's code
    held,      \* per caller: _PooledConn._conn it was handed, or NoConn
    wclosed,   \* per caller: _PooledConn._closed of its wrapper
    closed,    \* the sockets on which close() has been called
    last,      \* the last pool operation that completed (observation only)
    codec,     \* the frame codec on its own: input, frame and result
    ws,        \* per connection: the WebSocketConnection object and its socket
    thr,       \* per connection: its handler thread (server connections)
    srv,       \* the accept loop of start_websocket_server
    wlast,     \* the last call on a connection (observation only)
    hs         \* the server handshake on its own: request and answer

poolvars == <<pool, used, lock, now, pc, held, wclosed, closed, last>>

sessvars == <<ws, thr, srv, wlast>>

wsvars == <<codec, sessvars, hs>>

vars == <<poolvars, wsvars>>

\* ----------------------------------------------------------- helpers
PoolConns(p) == {p[i][1] : i \in DOMAIN p}

Lent == {c \in Callers : held[c] # NoConn}
HeldConns == {held[c] : c \in Lent}

\* now - t < self.idle_timeout   (tcp.py:737, 755)
FreshLax(e, t) == t - e[2] <= idle_timeout
Fresh(e, t) == t - e[2] < idle_timeout

\* self._pool = [(c, t) for (c, t) in self._pool if now - t < self.idle_timeout]
Sweep(p, t) == SelectSeq(p, LAMBDA e : Fresh(e, t))
EvictedAges(p, t) == {t - p[i][2] : i \in {j \in DOMAIN p : ~Fresh(p[j], t)}}

\* conn, _ = self._pool.pop()
PopConn(p) == p[Len(p)][1]
PoolAfterPopKeep(p) == p
PoolAfterPop(p) == SubSeq(p, 1, Len(p) - 1)

\* The if / elif / else of connection() on entry (tcp.py:739-748).
DecisionCreateFirst(sp, u) ==
    IF u < max_size THEN "create" ELSE IF sp # <<>> THEN "reuse" ELSE "wait"
DecisionNoBound(sp, u) ==
    IF sp # <<>> THEN "reuse" ELSE IF u <= max_size THEN "create" ELSE "wait"
Decision(sp, u) ==
    IF sp # <<>> THEN "reuse" ELSE IF u < max_size THEN "create" ELSE "wait"

\* The test of the wait loop after each sleep (tcp.py:757): only the idle
\* list is looked at.
RetryDecision(sp, u) == IF sp # <<>> THEN "reuse" ELSE "wait"

\* _create_conn: socket.create_connection may raise OSError, and with
\* ssl=True context.wrap_socket may raise ssl.SSLError.
CreateConnOutcomes == {"ok", "OSError", "SSLError"}
\* The socket object a successful _create_conn returns: a new object,
\* distinct from every socket still referenced.
NewConn(p) == CHOOSE k \in ConnIds :
                  /\ k \notin PoolConns(p) \cup HeldConns
                  /\ \A j \in ConnIds : j < k => j \in PoolConns(p) \cup HeldConns

\* self._used after _create_conn raised: line 745 is not reached.
UsedAfterRaiseCounted(u) == u + 1
UsedAfterRaise(u) == u
\* self._lock after an exception left the `with self._lock:` block.
LockAfterRaiseHeld(c) == c
LockAfterRaise(c) == Free

\* _release: self._pool.append((conn, time.time())); self._used -= 1
ReleaseAppendStale(p, conn, t) == Append(p, <<conn, 0>>)
ReleaseAppend(p, conn, t) == Append(p, <<conn, t>>)
UsedAfterRelease(u) == u - 1

\* closeall: the sockets conn.close() is called on.
CloseAllTargetsAll(p) == PoolConns(p) \cup HeldConns
CloseAllTargets(p) == PoolConns(p)

NoOp == [op |-> "none", ages |-> {}, n |-> 0]
Op(o, a, m) == [op |-> o, ages |-> a, n |-> m]

\* ------------------------------------------------------------- Init
PoolInit ==
    /\ pool = <<>>
    /\ used = 0
    /\ lock = Free
    /\ now = 0
    /\ pc = [c \in Callers |-> "idle"]
    /\ held = [c \in Callers |-> NoConn]
    /\ wclosed = [c \in Callers |-> FALSE]
    /\ closed = {}
    /\ last = NoOp

SessInit ==
    /\ ws = [s \in Sessions |-> NoSession]
    /\ thr = [s \in Sessions |-> "none"]
    /\ srv = SrvInit
    /\ wlast = NoCall

Init == PoolInit /\ codec = NoCodec /\ SessInit /\ hs = NoHs

\* ------------------------------------------------------------ actions
\* time passes
Tick ==
    /\ now < MaxTime
    /\ now' = now + 1
    /\ UNCHANGED <<pool, used, lock, pc, held, wclosed, closed, last>>
    /\ UNCHANGED wsvars

\* A caller calls pool.connection() and `with self._lock:` obtains the lock
\* (tcp.py:733).
ConnectionLock(c) ==
    /\ pc[c] = "idle"
    /\ lock = Free
    /\ lock' = c
    /\ pc' = [pc EXCEPT ![c] = "acq_decide"]
    /\ UNCHANGED <<pool, used, now, held, wclosed, closed, last>>
    /\ UNCHANGED wsvars

\* Hand conn k to caller c: self._used += 1; return self._PooledConn(self, conn)
\* and the `with self._lock:` block is left.
Handout(c, k) ==
    /\ used' = used + 1
    /\ held' = [held EXCEPT ![c] = k]
    /\ wclosed' = [wclosed EXCEPT ![c] = FALSE]
    /\ pc' = [pc EXCEPT ![c] = "holding"]
    /\ lock' = Free

\* self._lock.release() at the top of the wait loop (tcp.py:750), then sleep.
StartSleep(c) ==
    /\ lock' = Free
    /\ pc' = [pc EXCEPT ![c] = "sleeping"]
    /\ UNCHANGED <<used, held, wclosed, closed>>

\* connection(), lines 734-750: sweep, then reuse / create / start waiting.
ConnectionDecide(c) ==
    /\ pc[c] = "acq_decide"
    /\ LET sp == Sweep(pool, now)
           ages == EvictedAges(pool, now)
           d == Decision(sp, used)
       IN  \/ /\ d = "reuse"
              /\ pool' = PoolAfterPop(sp)
              /\ Handout(c, PopConn(sp))
              /\ closed' = closed
              /\ last' = Op("reuse", ages, 0)
           \/ /\ d = "create"
              /\ \E r \in CreateConnOutcomes :
                    IF r = "ok"
                    THEN /\ pool' = sp
                         /\ Handout(c, NewConn(pool))
                         /\ closed' = closed \ {NewConn(pool)}
                         /\ last' = Op("create", ages, 0)
                    ELSE /\ pool' = sp
                         /\ used' = UsedAfterRaise(used)
                         /\ lock' = LockAfterRaise(c)
                         /\ pc' = [pc EXCEPT ![c] = "idle"]
                         /\ last' = Op(r, ages, 0)
                         /\ UNCHANGED <<held, wclosed, closed>>
           \/ /\ d = "wait"
              /\ pool' = sp
              /\ StartSleep(c)
              /\ last' = Op("wait", ages, 0)
    /\ now' = now
    /\ UNCHANGED wsvars

\* time.sleep(0.05) is over and self._lock.acquire() succeeds (tcp.py:751-752).
ConnectionWake(c) ==
    /\ pc[c] = "sleeping"
    /\ lock = Free
    /\ lock' = c
    /\ pc' = [pc EXCEPT ![c] = "acq_retry"]
    /\ UNCHANGED <<pool, used, now, held, wclosed, closed, last>>
    /\ UNCHANGED wsvars

\* One turn of the wait loop, lines 753-760 and back to 750.
ConnectionRetry(c) ==
    /\ pc[c] = "acq_retry"
    /\ LET sp == Sweep(pool, now)
           ages == EvictedAges(pool, now)
           d == RetryDecision(sp, used)
       IN  \/ /\ d = "reuse"
              /\ pool' = PoolAfterPop(sp)
              /\ Handout(c, PopConn(sp))
              /\ closed' = closed
              /\ last' = Op("reuse", ages, 0)
           \/ /\ d = "wait"
              /\ pool' = sp
              /\ StartSleep(c)
              /\ last' = Op("wait", ages, 0)
    /\ now' = now
    /\ UNCHANGED wsvars

\* _PooledConn.close(), called by the holder inside its scope.
WrapperClose(c) ==
    /\ pc[c] = "holding"
    /\ ~wclosed[c]
    /\ closed' = closed \cup {held[c]}
    /\ wclosed' = [wclosed EXCEPT ![c] = TRUE]
    /\ last' = Op("wclose", {}, 0)
    /\ UNCHANGED <<pool, used, lock, now, pc, held>>
    /\ UNCHANGED wsvars

\* exc_type of __exit__: the body of the `with` statement ended normally or
\* raised.
ExitKinds == {"none", "error"}

\* __exit__ releases:  if not self._closed: self._pool._release(self._conn)
\* (tcp.py:723-725); exc_type is not looked at.
ExitReleasesOnSuccess(wasClosed, e) == ~wasClosed /\ e = "none"
ExitReleases(wasClosed, e) == ~wasClosed

\* _PooledConn.__exit__ without a release: the scope is left (normally or
\* by an exception) and the pool is not touched (tcp.py:724).
ExitClosed(c) ==
    /\ pc[c] = "holding"
    /\ \E e \in ExitKinds : ~ExitReleases(wclosed[c], e)
    /\ pc' = [pc EXCEPT ![c] = "idle"]
    /\ held' = [held EXCEPT ![c] = NoConn]
    /\ last' = Op("exit_closed", {}, 0)
    /\ UNCHANGED <<pool, used, lock, now, wclosed, closed>>
    /\ UNCHANGED wsvars

\* _PooledConn.__exit__(exc_type, ...) calls _release and `with self._lock:`
\* obtains the lock (tcp.py:724-725, 763).
ReleaseLock(c) ==
    /\ pc[c] = "holding"
    /\ lock = Free
    /\ \E e \in ExitKinds :
          /\ ExitReleases(wclosed[c], e)
          /\ last' = Op(IF e = "none" THEN "exit" ELSE "exit_error", {}, 0)
    /\ lock' = c
    /\ pc' = [pc EXCEPT ![c] = "rel_body"]
    /\ UNCHANGED <<pool, used, now, held, wclosed, closed>>
    /\ UNCHANGED wsvars

\* _release, lines 764-765.  last.n = 1 marks the release that ends a scope
\* left by an exception (when no other operation completed in between).
Release(c) ==
    /\ pc[c] = "rel_body"
    /\ pool' = ReleaseAppend(pool, held[c], now)
    /\ used' = UsedAfterRelease(used)
    /\ held' = [held EXCEPT ![c] = NoConn]
    /\ pc' = [pc EXCEPT ![c] = "idle"]
    /\ lock' = Free
    /\ last' = Op("release", {}, IF last.op = "exit_error" THEN 1 ELSE 0)
    /\ UNCHANGED <<now, wclosed, closed>>
    /\ UNCHANGED wsvars

\* A caller calls pool.closeall() and `with self._lock:` obtains the lock
\* (tcp.py:768).
CloseAllLock(c) ==
    /\ pc[c] = "idle"
    /\ lock = Free
    /\ lock' = c
    /\ pc' = [pc EXCEPT ![c] = "ca_body"]
    /\ UNCHANGED <<pool, used, now, held, wclosed, closed, last>>
    /\ UNCHANGED wsvars

\* closeall, lines 769-775.
CloseAll(c) ==
    /\ pc[c] = "ca_body"
    /\ closed' = closed \cup CloseAllTargets(pool)
    /\ pool' = <<>>
    /\ used' = 0
    /\ pc' = [pc EXCEPT ![c] = "idle"]
    /\ lock' = Free
    /\ last' = Op("closeall", {}, Len(pool))
    /\ UNCHANGED <<now, held, wclosed>>
    /\ UNCHANGED wsvars

\* ------------------------------------------------------ specifications
AcquireStep(c) ==
    \/ ConnectionLock(c)
    \/ ConnectionDecide(c)
    \/ ConnectionWake(c)
    \/ ConnectionRetry(c)

ReleaseStep(c) ==
    \/ WrapperClose(c)
    \/ ExitClosed(c)
    \/ ReleaseLock(c)
    \/ Release(c)

CloseAllStep(c) ==
    \/ CloseAllLock(c)
    \/ CloseAll(c)

\* acquire and release only
NextAR == Tick \/ \E c \in Callers : AcquireStep(c) \/ ReleaseStep(c)

Next == Tick \/ \E c \in Callers : AcquireStep(c) \/ ReleaseStep(c) \/ CloseAllStep(c)

SpecAR == Init /\ [][NextAR]_vars

Spec == Init /\ [][Next]_vars

\* Fairness of the threads: a thread inside a pool method goes on running
\* it, and a sleeping caller gets the lock again and again.
InMethodStep(c) ==
    \/ ConnectionDecide(c)
    \/ ConnectionRetry(c)
    \/ Release(c)
    \/ CloseAll(c)

Fairness == \A c \in Callers : WF_vars(InMethodStep(c)) /\ SF_vars(ConnectionWake(c))

FairSpec == Init /\ [][Next]_vars /\ Fairness

\* acquire and release only, fair
FairSpecAR == Init /\ [][NextAR]_vars /\ Fairness

(***************************************************************************)
(* The frame codec on its own: a text is written as a frame by send (or by *)
(* a peer that masks) and the frame is read by recv.                       *)
(***************************************************************************)
\* the connection of role codec.role calls send(text)
CodecSend ==
    /\ codec.stage = "input"
    /\ codec' = [codec EXCEPT !.stage = "wire", !.enc = "send",
                              !.wire = IF codec.sflavour = "sync"
                                       THEN Send(codec.text)
                                       ELSE AsyncSend(codec.text)]
    /\ UNCHANGED <<poolvars, sessvars, hs>>

\* a peer that masks writes the text
CodecPeerMasked ==
    /\ codec.stage = "input"
    /\ codec' = [codec EXCEPT !.stage = "wire", !.enc = "masked",
                              !.wire = MaskedFrame(codec.text, codec.key)]
    /\ UNCHANGED <<poolvars, sessvars, hs>>

\* the other end calls recv() with the frame arrived
CodecRecv ==
    /\ codec.stage = "wire"
    /\ LET st == Stream(codec.wire, FALSE, FALSE, codec.chunk)
           r == IF codec.rflavour = "sync" THEN Recv(st) ELSE AsyncRecv(st)
       IN  /\ ~r.blocked
           /\ codec' = [codec EXCEPT !.stage = "done", !.res = r]
    /\ UNCHANGED <<poolvars, sessvars, hs>>

CodecInit == PoolInit /\ codec \in CodecInputs /\ SessInit /\ hs = NoHs

CodecNext == CodecSend \/ CodecPeerMasked \/ CodecRecv

CodecSpec == CodecInit /\ [][CodecNext]_vars

(***************************************************************************)
(* Connections and the server.  A server connection is used by its handler *)
(* thread, a client connection by the application that connected.  A call  *)
(* of send, recv or close is one step; a recv that would wait for bytes is *)
(* not taken until they have arrived.                                      *)
(***************************************************************************)
\* the code that holds connection s may call its methods
Usable(s) ==
    \/ ws[s].role = "client"
    \/ ws[s].role = "server" /\ thr[s] = "running"

\* The accept loop, websocket.py:196-209: accept, handshake, then
\* threading.Thread(target=handler, args=(ws,), daemon=True).start()
Accept(s) ==
    /\ srv.state = "listening"
    /\ ws[s].kind = "none"
    /\ ws' = [ws EXCEPT ![s] = NewSession("sync", "server")]
    /\ thr' = [thr EXCEPT ![s] = "running"]
    /\ wlast' = Call(s, "accept", NoText, "none", NoBytes, FALSE)
    /\ UNCHANGED <<srv, poolvars, codec, hs>>

\* connect_websocket (k = "sync") / async_connect_websocket (k = "async")
\* returns a connection
Connect(s, k) ==
    /\ ws[s].kind = "none"
    /\ ws' = [ws EXCEPT ![s] = NewSession(k, "client")]
    /\ wlast' = Call(s, "connect", NoText, "none", NoBytes, FALSE)
    /\ UNCHANGED <<thr, srv, poolvars, codec, hs>>

\* a frame of the peer arrives
PeerSend(s, f) ==
    /\ ws[s].kind # "none"
    /\ ws[s].sock = "open"
    /\ ~ws[s].eof
    /\ FrameCount(ws[s].inbuf) < MaxBuffered
    /\ ws' = [ws EXCEPT ![s].inbuf = ws[s].inbuf \o f]
    /\ UNCHANGED <<thr, srv, wlast, poolvars, codec, hs>>

\* the other end calls send(t): the frame is on its way
PeerWrite(s, t) ==
    /\ ws[s].kind # "none"
    /\ ws[s].sock = "open"
    /\ ~ws[s].eof
    /\ Len(ws[s].sent) < MaxInFlight
    /\ ws' = [ws EXCEPT ![s].pending = ws[s].pending \o Send(t),
                        ![s].sent = Append(ws[s].sent, t)]
    /\ UNCHANGED <<thr, srv, wlast, poolvars, codec, hs>>

\* the Transport delivers the next n bytes that are on their way
Deliver(s, n) ==
    /\ ws[s].kind # "none"
    /\ ws[s].sock = "open"
    /\ ~ws[s].eof
    /\ n <= RLen(ws[s].pending)
    /\ ws' = [ws EXCEPT ![s].inbuf = ws[s].inbuf \o Take(ws[s].pending, n),
                        ![s].pending = Drop(ws[s].pending, n)]
    /\ UNCHANGED <<thr, srv, wlast, poolvars, codec, hs>>

\* the peer closes its end
PeerClose(s) ==
    /\ ws[s].kind # "none"
    /\ ~ws[s].eof
    /\ ws' = [ws EXCEPT ![s].eof = TRUE]
    /\ UNCHANGED <<thr, srv, wlast, poolvars, codec, hs>>

\* What writing b to the Transport of connection c raises.  On a closed
\* socket sendall raises OSError; a closing asyncio transport drops the
\* bytes and drain() raises ConnectionResetError; after the peer has closed
\* the write goes through or fails.
WriteOutcomes(c) ==
    IF c.sock = "closed"
    THEN IF c.kind = "sync" THEN {"OSError"} ELSE {"ConnectionResetError"}
    ELSE IF c.eof THEN {"none", "BrokenPipeError"} ELSE {"none"}

\* send(text), websocket.py:35-59 and 295-318
SendOp(s, t) ==
    /\ ws[s].kind # "none"
    /\ Usable(s)
    /\ \E e \in WriteOutcomes(ws[s]) :
          wlast' = Call(s, "send", NoText, e,
                        IF e = "none"
                        THEN IF ws[s].kind = "sync" THEN Send(t) ELSE AsyncSend(t)
                        ELSE NoBytes,
                        FALSE)
    /\ UNCHANGED <<ws, thr, srv, poolvars, codec, hs>>

\* recv(), websocket.py:61-96 and 320-354.  After writer.close() the
\* StreamReader is fed end-of-stream (connection_lost).
RecvResult(c) ==
    IF c.kind = "sync"
    THEN Recv(Stream(c.inbuf, c.eof, c.sock = "closed", 0))
    ELSE AsyncRecv(Stream(c.inbuf, c.eof \/ c.sock = "closed", FALSE, 0))

\* self.open after recv(): the only assignment is self.open = False on a
\* zero-length first read, websocket.py:78-80 and 336-338
OpenAfterRecvReset(c, r) == ~r.disc

OpenAfterRecv(c, r) == IF r.disc THEN FALSE ELSE c.open

RecvOp(s) ==
    /\ ws[s].kind # "none"
    /\ Usable(s)
    /\ LET c == ws[s]
           r == RecvResult(c)
       IN  /\ ~r.blocked
           /\ ws' = [ws EXCEPT ![s].inbuf = r.rest,
                               ![s].open = OpenAfterRecv(c, r),
                               ![s].sent = IF r.exc = "none" /\ ~r.disc /\ c.sent # <<>>
                                           THEN Tail(c.sent) ELSE c.sent]
           /\ wlast' = Call(s, "recv", r.ret, r.exc, NoBytes, FALSE)
    /\ UNCHANGED <<thr, srv, poolvars, codec, hs>>

\* close(): `except Exception: pass` around the write of the close frame
CloseFrameErrorRaised(e) == e

CloseFrameError(e) == "none"

\* close(): self.conn.close() / self.writer.close() comes after the try
\* statement, whatever the write did
SockAfterCloseInTry(c, e) == IF e = "none" THEN "closed" ELSE c.sock

SockAfterClose(c, e) == "closed"

\* close(), websocket.py:98-116 and 356-374: best-effort close frame, then
\* conn.close() / writer.close(), which releases the descriptor unless it
\* is released already, then self.open = False
CloseOp(s) ==
    /\ ws[s].kind # "none"
    /\ Usable(s)
    /\ \E e \in WriteOutcomes(ws[s]) :
          /\ wlast' = Call(s, "close", NoText, CloseFrameError(e),
                           IF e = "none" THEN CloseFrame ELSE NoBytes,
                           ws[s].sock = "open")
          /\ ws' = [ws EXCEPT ![s].sock = SockAfterClose(ws[s], e), ![s].open = FALSE]
    /\ UNCHANGED <<thr, srv, poolvars, codec, hs>>

\* An exception that leaves the handler ends its thread (the thread was
\* started at websocket.py:209); it reaches no other thread.
SrvAfterHandlerRaiseInline(sv) == [sv EXCEPT !.state = "stopped"]

SrvAfterHandlerRaise(sv) == sv

\* the handler of connection s raises
HandlerRaise(s) ==
    /\ thr[s] = "running"
    /\ thr' = [thr EXCEPT ![s] = "raised"]
    /\ srv' = SrvAfterHandlerRaise(srv)
    /\ wlast' = Call(s, "raise", NoText, "Exception", NoBytes, FALSE)
    /\ UNCHANGED <<ws, poolvars, codec, hs>>

\* the handler of connection s returns
HandlerReturn(s) ==
    /\ thr[s] = "running"
    /\ thr' = [thr EXCEPT ![s] = "returned"]
    /\ wlast' = Call(s, "return", NoText, "none", NoBytes, FALSE)
    /\ UNCHANGED <<ws, srv, poolvars, codec, hs>>

\* shutdown_event.set() by the application
SetShutdown ==
    /\ ~srv.shutdown
    /\ srv' = [srv EXCEPT !.shutdown = TRUE]
    /\ UNCHANGED <<ws, thr, wlast, poolvars, codec, hs>>

\* the loop sees the event set: break, finally sock.close()
ServerStop ==
    /\ srv.state = "listening"
    /\ srv.shutdown
    /\ srv' = [srv EXCEPT !.state = "stopped"]
    /\ UNCHANGED <<ws, thr, wlast, poolvars, codec, hs>>

\* top of the loop with the event clear: sock.settimeout(1.0), then
\* sock.accept() is entered, websocket.py:197-202
Poll ==
    /\ srv.state = "listening"
    /\ ~srv.shutdown
    /\ srv' = [srv EXCEPT !.state = "accepting"]
    /\ UNCHANGED <<ws, thr, wlast, poolvars, codec, hs>>

\* a poll interval after the event was set has passed
Later(sv) == IF sv.shutdown /\ sv.late < MaxLate THEN sv.late + 1 ELSE sv.late

\* sock.accept() raises socket.timeout after 1.0 s: continue
AcceptTimeout ==
    /\ srv.state = "accepting"
    /\ srv' = [srv EXCEPT !.state = "listening", !.late = Later(srv)]
    /\ UNCHANGED <<ws, thr, wlast, poolvars, codec, hs>>

\* sock.accept() returns the socket of client s; _handshake(conn) is
\* entered.  The accepted socket has no timeout.
AcceptConn(s) ==
    /\ srv.state = "accepting"
    /\ ws[s] = NoSession
    /\ ws' = [ws EXCEPT ![s].sock = "open"]
    /\ srv' = [srv EXCEPT !.state = "handshake", !.cur = s,
                          !.after = IF srv.shutdown THEN srv.after + 1 ELSE srv.after]
    /\ UNCHANGED <<thr, wlast, poolvars, codec, hs>>

\* a poll interval passes while _handshake waits in conn.recv(1024) for a
\* client that has not sent the end of its request
HandshakeWait ==
    /\ srv.state = "handshake"
    /\ srv.shutdown
    /\ srv.late < MaxLate
    /\ srv' = [srv EXCEPT !.late = Later(srv)]
    /\ UNCHANGED <<ws, thr, wlast, poolvars, codec, hs>>

\* What the loop does with the outcome r of _handshake on connection s,
\* websocket.py:205-209: an exception leaves the loop (finally:
\* sock.close()) with conn as it is; False closes conn and continues; True
\* creates the WebSocketConnection and starts its handler thread.
AfterHandshake(s, r) ==
    IF r.exc # "none"
    THEN /\ srv' = [srv EXCEPT !.state = "stopped", !.cur = 0, !.exc = r.exc]
         /\ wlast' = Call(s, "handshake", NoText, r.exc, NoBytes, FALSE)
         /\ UNCHANGED <<ws, thr>>
    ELSE IF ~r.ok
    THEN /\ srv' = [srv EXCEPT !.state = "listening", !.cur = 0]
         /\ ws' = [ws EXCEPT ![s].sock = "closed"]
         /\ wlast' = Call(s, "handshake", NoText, "none", NoBytes, TRUE)
         /\ UNCHANGED thr
    ELSE /\ srv' = [srv EXCEPT !.state = "listening", !.cur = 0]
         /\ ws' = [ws EXCEPT ![s] = NewSession("sync", "server")]
         /\ thr' = [thr EXCEPT ![s] = "running"]
         /\ wlast' = Call(s, "accept", NoText, "none", NoBytes, FALSE)

\* the request of client s has arrived, or its stream has ended:
\* _handshake(conn) finishes
HandshakeDone(s, req) ==
    /\ srv.state = "handshake"
    /\ srv.cur = s
    /\ AfterHandshake(s, HandshakeResult(req))
    /\ UNCHANGED <<poolvars, codec, hs>>

\* a client connects
ClientStep(s) == \E k \in Flavours : Connect(s, k)

\* the server accepts a connection, and what happens on a connection
ConnStep(s) ==
    \/ Accept(s)
    \/ \E f \in PeerFrames : PeerSend(s, f)
    \/ PeerClose(s)
    \/ \E t \in WsTexts : SendOp(s, t)
    \/ RecvOp(s)
    \/ CloseOp(s)
    \/ HandlerRaise(s)
    \/ HandlerReturn(s)

WsInit == PoolInit /\ codec = NoCodec /\ SessInit /\ hs = NoHs

\* one connection on its own, of either flavour and role
SessionNext == ClientStep(1) \/ ConnStep(1)

SessionSpec == WsInit /\ [][SessionNext]_vars

\* One connection whose peer sends texts over a Transport that delivers
\* the bytes in pieces of any size.
StreamNext ==
    \/ ClientStep(1)
    \/ Accept(1)
    \/ \E t \in StreamTexts : PeerWrite(1, t)
    \/ \E n \in 1..4 : Deliver(1, n)
    \/ PeerClose(1)
    \/ RecvOp(1)
    \/ CloseOp(1)

StreamSpec == WsInit /\ [][StreamNext]_vars

\* the server and its connections
WsNext == SetShutdown \/ ServerStop \/ \E s \in Sessions : ConnStep(s)

WsSpec == WsInit /\ [][WsNext]_vars

\* The accept loop step by step, with clients whose requests are valid,
\* invalid, cut off or never finished, and the handler threads.
ServerNext ==
    \/ Poll
    \/ AcceptTimeout
    \/ \E s \in Sessions : AcceptConn(s)
    \/ HandshakeWait
    \/ \E s \in Sessions : \E req \in ServerRequests : HandshakeDone(s, req)
    \/ SetShutdown
    \/ ServerStop
    \/ \E s \in Sessions : CloseOp(s) \/ HandlerRaise(s) \/ HandlerReturn(s)

ServerSpec == WsInit /\ [][ServerNext]_vars

(***************************************************************************)
(* The server-role handshake on its own: a request arrives and _handshake  *)
(* answers it.                                                             *)
(***************************************************************************)
Handshake ==
    /\ hs.stage = "input"
    /\ LET r == HandshakeResult(hs.req)
       IN  hs' = [hs EXCEPT !.stage = "done", !.ok = r.ok, !.exc = r.exc, !.resp = r.resp]
    /\ UNCHANGED <<poolvars, codec, sessvars>>

HsInit ==
    /\ PoolInit /\ codec = NoCodec /\ SessInit
    /\ hs \in {[NoHs EXCEPT !.stage = "input", !.req = r] : r \in HsRequests}

HsNext == Handshake

HandshakeSpec == HsInit /\ [][HsNext]_vars

(***************************************************************************)
(* The client-role handshake on its own: the request is sent, a response   *)
(* arrives and connect_websocket / async_connect_websocket reads it.       *)
(***************************************************************************)
ClientHandshake ==
    /\ hs.stage = "cinput"
    /\ LET r == ClientHandshakeResult(hs.cresp)
       IN  hs' = [hs EXCEPT !.stage = "cdone", !.out = r.out, !.sock = r.sock]
    /\ UNCHANGED <<poolvars, codec, sessvars>>

ClientHsInit ==
    /\ PoolInit /\ codec = NoCodec /\ SessInit
    /\ hs \in {[NoHs EXCEPT !.stage = "cinput", !.kind = k, !.cresp = r, !.sock = "open"] :
                 k \in Flavours, r \in ClientResponses}

ClientHsNext == ClientHandshake

ClientHandshakeSpec == ClientHsInit /\ [][ClientHsNext]_vars

\* ------------------------------------------------------------ properties
\* Caller c takes a step of connection() that ends its current decision.
DecisionStep(c) ==
    /\ pc[c] \in {"acq_decide", "acq_retry"}
    /\ pc'[c] # pc[c]

RaisedOps == {"OSError", "SSLError"}

\* sp without its i-th entry
Without(sp, i) == [j \in 1..(Len(sp) - 1) |-> IF j < i THEN sp[j] ELSE sp[j + 1]]

\* C1: with acquire and release only, the number of Transports lent to
\* callers at the same time never exceeds max_size.
C1_LentBounded == Cardinality(Lent) <= max_size

C1_Witness ==
    /\ Cardinality(Lent) = max_size
    /\ \E c \in Callers : pc[c] = "sleeping"

\* C2 (as claimed): idle_count + lent_count <= max_size in every reachable
\* state, lent_count being the number of Transports in callers' hands,
\* after any sequence of acquire, release and closeAll.
C2_Orig == Len(pool) + Cardinality(Lent) <= max_size

C4_Orig ==
    \A c \in Callers :
        (pc[c] = "sleeping" /\ pool # <<>>) ~> (held[c] # NoConn \/ used >= max_size)

\* C5 (as claimed): on every wake-up the blocked caller retries the decision
\* of entry: a non-expired idle Transport if there is one, else the factory
\* if lent_count < max_size, else it blocks again.
C5_Orig ==
    [][\A c \in Callers :
        (pc[c] = "acq_retry" /\ pc'[c] # "acq_retry") =>
            LET sp == Sweep(pool, now)
            IN  IF sp # <<>>
                THEN pc'[c] = "holding" /\ held'[c] \in PoolConns(sp)
                ELSE IF used < max_size
                THEN \/ pc'[c] = "holding" /\ held'[c] \notin PoolConns(pool)
                     \/ pc'[c] = "idle" /\ last'.op \in RaisedOps
                ELSE pc'[c] = "sleeping"
      ]_vars

\* C6: after the sweep, if a non-expired idle Transport exists the acquire
\* returns one of them, removes it from the idle set and adds one to the
\* lent count without calling the factory; the factory is called only when
\* the swept idle set is empty and lent_count < max_size.
C6_DecisionOrder ==
    [][\A c \in Callers : DecisionStep(c) =>
        LET sp == Sweep(pool, now)
        IN  /\ sp # <<>> =>
                /\ pc'[c] = "holding"
                /\ \E i \in DOMAIN sp :
                      held'[c] = sp[i][1] /\ pool' = Without(sp, i)
                /\ used' = used + 1
                /\ last'.op = "reuse"
            /\ last'.op \in {"create"} \cup RaisedOps =>
                sp = <<>> /\ used < max_size
      ]_vars

C6_Witness ==
    /\ last.op = "reuse"
    /\ Lent # {}
    /\ used = max_size

\* C7: every pooled Transport has at most one owner: never idle and in a
\* caller's hands at once, never lent to two callers, never twice idle.
C7_SingleOwner ==
    /\ \A c \in Lent : held[c] \notin PoolConns(pool)
    /\ \A c, d \in Lent : c # d => held[c] # held[d]
    /\ \A i, j \in DOMAIN pool : i # j => pool[i][1] # pool[j][1]

C7_Witness ==
    /\ Lent # {}
    /\ pool # <<>>
    /\ last.op = "release"

\* C8: release(Transport) appends exactly that Transport to the idle set
\* with the time of release as timestamp, takes one off the lent count,
\* closes nothing and leaves the other idle slots and holders as they were.
C8_ReleaseFrame ==
    [][\A c \in Callers : (pc[c] = "rel_body" /\ pc'[c] # "rel_body") =>
        /\ pool' = Append(pool, <<held[c], now>>)
        /\ used' = used - 1
        /\ closed' = closed
        /\ held'[c] = NoConn
        /\ \A d \in Callers \ {c} : held'[d] = held[d]
      ]_vars

C8_Witness ==
    /\ last.op = "release"
    /\ Len(pool) >= 2
    /\ now > 0
    /\ pool[Len(pool)][2] = now
    /\ pool[1][2] < now
    /\ pool[Len(pool)][1] \notin closed

\* C9: closeAll() closes every Transport idle at the call, leaves the idle
\* set empty and the lent counter at zero, and changes no Transport that is
\* in a caller's hands.
C9_CloseAllFrame ==
    [][\A c \in Callers : (pc[c] = "ca_body" /\ pc'[c] # "ca_body") =>
        /\ PoolConns(pool) \subseteq closed'
        /\ pool' = <<>>
        /\ used' = 0
        /\ \A d \in Lent :
              /\ held'[d] = held[d]
              /\ held[d] \in closed' <=> held[d] \in closed
      ]_vars

C9_Witness ==
    /\ last.op = "closeall"
    /\ last.n >= 1
    /\ \E c \in Lent : held[c] \notin closed

\* C10: a factory failure inside acquire() ends the call with the error (no
\* retry), leaves the lent count unchanged and the mutex free, hands out
\* nothing, and the pool's invariants (idle + counter <= max_size, single
\* ownership) hold then and in every later state.
PoolInvariant ==
    /\ Len(pool) + used <= max_size
    /\ C7_SingleOwner

C10_FactoryFailure ==
    /\ [][\A c \in Callers :
            (DecisionStep(c) /\ last'.op \in RaisedOps) =>
                /\ pc[c] = "acq_decide"
                /\ pc'[c] = "idle"
                /\ used' = used
                /\ lock' = Free
                /\ held' = held
                /\ pool' = Sweep(pool, now)
                /\ closed' = closed
         ]_vars
    /\ [](PoolInvariant /\ (lock # Free => pc[lock] \in {"acq_decide", "acq_retry", "rel_body", "ca_body"}))

C10_Witness ==
    /\ last.op = "SSLError"
    /\ last.ages # {}
    /\ lock = Free
    /\ Lent # {}

\* C11: saturation is not an error: a decision taken with the lent count at
\* max_size never calls the factory, never raises and never ends the call
\* without a Transport; the caller sleeps, and a caller in the wait loop
\* leaves it only with a Transport taken from the idle set.
C11_SaturationBlocks ==
    [][\A c \in Callers :
        /\ (DecisionStep(c) /\ used >= max_size) =>
              /\ last'.op \notin {"create"} \cup RaisedOps
              /\ \/ pc'[c] = "sleeping" /\ held'[c] = NoConn
                 \/ pc'[c] = "holding" /\ held'[c] \in PoolConns(Sweep(pool, now))
        /\ pc[c] \in {"sleeping", "acq_retry"} =>
              \/ pc'[c] \in {"sleeping", "acq_retry"} /\ held'[c] = NoConn
              \/ pc'[c] = "holding" /\ held'[c] \in PoolConns(Sweep(pool, now))
      ]_vars

C11_Witness ==
    /\ \E c \in Callers : pc[c] = "sleeping"
    /\ last.op = "wait"
    /\ used = max_size
    /\ Cardinality(Lent) = max_size
    /\ now = MaxTime

\* C12 (as claimed): every Transport the eviction sweep removes from the
\* idle set is closed.
C12_Orig ==
    [][\A c \in Callers : DecisionStep(c) =>
          (PoolConns(pool) \ PoolConns(Sweep(pool, now))) \subseteq closed'
      ]_vars

\* ---------------------------------------------- properties of the codec
\* recv has returned and every read was handed the bytes it asked for (a
\* socket.recv that returns fewer bytes is the matter of other claims)
CodecDone == codec.stage = "done" /\ (codec.rflavour = "async" \/ codec.chunk = 0)

\* the frame on the wire: MASK bit, 7-bit length, offset of the payload
WireMasked == ByteAt(codec.wire, 1) >= 128
WireLen7 == ByteAt(codec.wire, 1) % 128
WireKey == MaskKey(Take(Drop(codec.wire, 2 + ExtLen(WireLen7)), 4))
WirePayload ==
    Drop(codec.wire, 2 + ExtLen(WireLen7) + (IF WireMasked THEN 4 ELSE 0))

\* the byte positions compared one by one
SampleIndexes(L) ==
    {i \in {0, 1, 2, 3, 4, 5, 6, 7, 123, 124, 125, 65533, 65534, 65535} : i < L}

\* C13: frame round trip: for the payload lengths 0, 1, 125, 126, 65535 and
\* 65536, recv of the frame written for a text, unmasked (by send) or
\* masked, returns the text, raises nothing and leaves no byte unread.
C13_RoundTrip ==
    CodecDone =>
        /\ RLen(Utf8Encode(codec.text)) \in Lengths
        /\ codec.res.exc = "none"
        /\ codec.res.ret = codec.text
        /\ codec.res.rest = <<>>
        /\ ~codec.res.disc

C13_Witness ==
    /\ CodecDone
    /\ codec.enc = "masked"
    /\ codec.key = <<55, 250, 33, 61>>
    /\ RLen(Utf8Encode(codec.text)) = 65536
    /\ Len(codec.text) = 2
    /\ ExtLen(WireLen7) = 8
    /\ codec.res.ret = codec.text

\* C14: masking: recv of a frame with the MASK bit returns the payload
\* whose byte i is the frame's byte i XOR mask_key[i % 4], recv of a frame
\* without it returns the frame's payload unchanged, and either is the
\* payload the sender encoded; for both roles and both flavours.
C14_Masking ==
    CodecDone =>
        LET got == Utf8Encode(codec.res.ret)
            sent == Utf8Encode(codec.text)
        IN  /\ codec.res.exc = "none"
            /\ WireMasked <=> codec.enc = "masked"
            /\ RLen(got) = RLen(WirePayload)
            /\ \A i \in SampleIndexes(RLen(WirePayload)) :
                  /\ ByteAt(got, i) =
                        IF WireMasked
                        THEN BitXor(ByteAt(WirePayload, i), WireKey[(i % 4) + 1])
                        ELSE ByteAt(WirePayload, i)
                  /\ ByteAt(got, i) = ByteAt(sent, i)

C14_Witness ==
    /\ CodecDone
    /\ WireMasked
    /\ codec.key = <<55, 250, 33, 61>>
    /\ codec.role = "server"
    /\ codec.rflavour = "async"
    /\ RLen(WirePayload) = 125
    /\ ByteAt(WirePayload, 5) = BitXor(105, 250)
    /\ ByteAt(Utf8Encode(codec.res.ret), 5) = 105

\* C15 (as claimed): every frame a client connection sends has the MASK
\* bit set, every frame a server connection sends has it clear.
C15_Orig ==
    (codec.stage # "input" /\ codec.enc = "send") =>
        (WireMasked <=> codec.role = "client")

\* ------------------------------------------- properties of connections
\* C17 (as claimed): a recv() called after close() has returned gives the
\* empty result: it raises nothing, reads nothing from the closed
\* Transport, and open stays false.
C17_Orig ==
    [][\A s \in Sessions :
          (RecvOp(s) /\ ws[s].sock = "closed") =>
              /\ wlast'.exc = "none"
              /\ wlast'.ret = EmptyText
              /\ ws'[s].inbuf = ws[s].inbuf
              /\ ~ws'[s].open
      ]_vars

OthersServe ==
    \A s \in Sessions : \A t \in Sessions \ {s} :
        (thr[s] = "raised" /\ thr[t] = "running") =>
            /\ Usable(t)
            /\ (ws[t].sock = "open" /\ ~ws[t].eof) => WriteOutcomes(ws[t]) = {"none"}
            /\ (ws[t].sock = "open" /\ ws[t].inbuf # <<>>) =>
                   /\ ~RecvResult(ws[t]).blocked
                   /\ RecvResult(ws[t]).exc = "none"
                   /\ RecvResult(ws[t]).ret \in WsTexts

\* the accept loop goes on until it is shut down
AcceptLoopRuns ==
    (\E s \in Sessions : thr[s] = "raised") =>
        (~srv.shutdown => srv.state = "listening")

\* C19: error isolation: when the handler of one connection raises, the
\* accept loop and every other connection are left as they were, and
\* afterwards the loop still accepts and the other connection still sends
\* and receives frames.
C19_ErrorIsolation ==
    [][/\ \A s \in Sessions :
            HandlerRaise(s) =>
                /\ srv' = srv
                /\ \A t \in Sessions \ {s} : ws'[t] = ws[t] /\ thr'[t] = thr[t]
       /\ OthersServe
       /\ AcceptLoopRuns
      ]_vars

C19_Witness ==
    /\ thr[1] = "raised"
    /\ thr[2] = "running"
    /\ srv.state = "listening"
    /\ ws[2].open
    /\ wlast = Call(2, "recv", <<Run(1, <<65, 0, 0, 0>>)>>, "none", NoBytes, FALSE)

\* C20 (as claimed): a recv() called when the peer has disconnected (end of
\* stream at a frame boundary) returns the empty result, sets open = false
\* and raises nothing, in both flavours.
C20_Orig ==
    [][\A s \in Sessions :
          (RecvOp(s) /\ ws[s].sock = "open" /\ ws[s].inbuf = <<>> /\ ws[s].eof) =>
              /\ wlast'.exc = "none"
              /\ wlast'.ret = EmptyText
              /\ ~ws'[s].open
      ]_vars

\* ---------------------------------------------- properties of the handshake
\* the values base64(SHA1(key ++ GUID)) of the reference implementations
\* (RFC 6455 section 1.3 for the sample key)
ReferenceAccept(key) ==
    IF key = SampleKey THEN "s3pPLMBiTxaQ9kYGzzhZRbK+xOo="
    ELSE IF key = OtherKey THEN "HSmrc0sMlYUkAGmm5OPpG2HaGWk="
    ELSE "GcS7e1WyH2+qnagsw4Cmzp78I7E="

\* C16: handshake derivation: the Sec-WebSocket-Accept written in the 101
\* response is base64(SHA1(key ++ GUID)) of the request's key; for the key
\* "dGhlIHNhbXBsZSBub25jZQ==" it is "s3pPLMBiTxaQ9kYGzzhZRbK+xOo=".
C16_AcceptDerivation ==
    (hs.stage = "done" /\ hs.ok) =>
        /\ hs.resp.status = 101
        /\ hs.resp.accept =
              ReferenceAccept(HeaderGet(hs.req.lines, "sec-websocket-key"))
        /\ HeaderGet(hs.req.lines, "sec-websocket-key") = SampleKey =>
              hs.resp.accept = "s3pPLMBiTxaQ9kYGzzhZRbK+xOo="

C16_Witness ==
    /\ hs.stage = "done"
    /\ hs.ok
    /\ hs.req.lines = <<HeaderLine("Sec-WebSocket-Key", SampleKey)>>
    /\ hs.resp.accept = "s3pPLMBiTxaQ9kYGzzhZRbK+xOo="

\* the header lines of a request whose name is Sec-WebSocket-Key in some
\* letter case
KeyLines(lines) ==
    {i \in 1..Len(lines) :
        lines[i].name \in {"Sec-WebSocket-Key", "sec-websocket-key", "SEC-WEBSOCKET-KEY"}}

\* the last of them
LastKeyLine(lines) == CHOOSE i \in KeyLines(lines) : \A j \in KeyLines(lines) : j <= i

Has101 == {Line101, Line200Tail101, LineBare101}

\* C22: the client-role handshake returns a session exactly when the
\* response's delimiter arrives before the end of the stream and its status
\* line contains 101; otherwise it raises the handshake error; the
\* Sec-WebSocket-Accept value has no influence.
C22_ClientHandshake ==
    hs.stage = "cdone" =>
        /\ hs.out = "session" <=> (hs.cresp.delim /\ hs.cresp.line \in Has101)
        /\ hs.out # "session" => hs.out = "ConnectionError"
        /\ \A a \in ClientAccepts :
              ClientHandshakeResult([hs.cresp EXCEPT !.accept = a]).out = hs.out

C22_Witness ==
    /\ hs.stage = "cdone"
    /\ hs.out = "session"
    /\ hs.cresp.line = Line200Tail101
    /\ hs.cresp.accept = "HSmrc0sMlYUkAGmm5OPpG2HaGWk="

\* ------------------------------------- properties of a Transport in pieces
\* the bytes of a byte string, one by one
Flat(r) == [i \in 1..RLen(r) |-> ByteAt(r, i - 1)]

RECURSIVE FramesOf(_)
\* the frames of a sequence of texts, end to end
FramesOf(texts) ==
    IF texts = <<>> THEN <<>> ELSE Send(texts[1]) \o FramesOf(Tail(texts))

\* The unread and the undelivered bytes of connection c are the frames of
\* the texts recv() has not returned yet: every recv() so far has consumed
\* whole frames.
Aligned(c) == Flat(c.inbuf \o c.pending) = Flat(FramesOf(c.sent))

\* the buffer starts with a whole frame
FrameComplete(buf) ==
    /\ RLen(buf) >= 2
    /\ RLen(buf) >= 2 + ExtLen(ByteAt(buf, 1) % 128)
    /\ RLen(buf) >= FrameLen(buf)

\* C23 (as claimed): a recv() that finds a truncated frame (some but not all
\* bytes of the frame have arrived when it reads) raises an error and
\* leaves the session closed: open = false and the Transport closed; it
\* returns no text.
C23_Orig ==
    [][\A s \in Sessions :
          (/\ RecvOp(s)
           /\ ws[s].sock = "open"
           /\ Aligned(ws[s])
           /\ ws[s].inbuf # <<>>
           /\ ~FrameComplete(ws[s].inbuf)) =>
              /\ wlast'.exc # "none"
              /\ ~ws'[s].open
              /\ ws'[s].sock = "closed"
      ]_vars

\* C24 (as claimed): recv() waits for the whole frame: a recv() on a
\* connection whose peer is still there, with the bytes of the next frame
\* arriving in pieces, returns exactly the payload of that frame, in the
\* blocking flavour as in the cooperative one.
C24_Orig ==
    [][\A s \in Sessions :
          (/\ RecvOp(s)
           /\ ws[s].sock = "open"
           /\ ~ws[s].eof
           /\ Aligned(ws[s])
           /\ ws[s].sent # <<>>) =>
              /\ wlast'.exc = "none"
              /\ Flat(wlast'.ret) = Flat(Head(ws[s].sent))
      ]_vars

\* C25 (as claimed): the texts recv() returns are the texts the other end
\* sent, in order, none lost, repeated, merged or split: every text a
\* recv() returns is the oldest sent text not returned before.
C25_Orig ==
    [][\A s \in Sessions :
          (/\ RecvOp(s)
           /\ ws[s].sock = "open"
           /\ wlast'.exc = "none"
           /\ wlast'.ret # EmptyText) =>
              /\ ws[s].sent # <<>>
              /\ Flat(wlast'.ret) = Flat(Head(ws[s].sent))
      ]_vars

\* ------------------------------------------------ properties of the server
\* C26 (as claimed): once the handler of a connection has raised, that
\* connection's Transport is closed and its open flag is false.
C26_Orig ==
    \A s \in Sessions :
        thr[s] = "raised" => (ws[s].sock = "closed" /\ ~ws[s].open)

\* C27 (as claimed): after the shutdown event is set the accept loop stops
\* (closing the listening socket) within one poll interval, whatever the
\* clients do, and accepts at most one more connection.
C27_Orig ==
    /\ srv.after <= 1
    /\ (srv.shutdown /\ srv.state # "stopped") => srv.late <= 1

\* C28 (as claimed): a connection object is created only by the end of a
\* handshake on its Transport that succeeded, and a handshake that ends
\* without success leaves the Transport closed, no connection object and no
\* handler thread, with the accept loop back at its top.
C28_Orig ==
    [][\A s \in Sessions :
          /\ (ws[s].kind = "none" /\ ws'[s].kind # "none") =>
                 /\ srv.state = "handshake" /\ srv.cur = s
                 /\ wlast' = Call(s, "accept", NoText, "none", NoBytes, FALSE)
                 /\ thr'[s] = "running"
          /\ (/\ srv.state = "handshake" /\ srv.cur = s
              /\ srv'.state # "handshake"
              /\ ws'[s].kind = "none") =>
                 /\ ws'[s].sock = "closed"
                 /\ thr'[s] = "none"
                 /\ srv'.state = "listening"
      ]_vars

C30_OpenMonotonic ==
    [][\A s \in Sessions :
          /\ (ws[s].kind = "none" /\ ws'[s].kind # "none") => ws'[s].open
          /\ (ws[s].kind # "none" /\ ~ws[s].open) => ~ws'[s].open
      ]_vars

C30_Witness ==
    /\ ws[1].kind = "sync"
    /\ ~ws[1].open
    /\ ws[1].sock = "closed"
    /\ wlast.s = 1
    /\ wlast.op = "recv"
    /\ wlast.exc = "OSError"

\* ------------------------------------ properties of the length encoding
\* the payload length of the text being sent
TextLen == RLen(Utf8Encode(codec.text))

\* C31: minimal length encoding: send writes the 7-bit length L for L < 126,
\* 126 and L as 2 bytes in network order for 126 <= L <= 65535, 127 and L as
\* 8 bytes in network order for L >= 65536 (the model's lengths are below
\* 2^24); recv decodes each form, masked or not, back to L.
C31_MinimalLength ==
    /\ (codec.stage # "input" /\ codec.enc = "send") =>
          /\ ByteAt(codec.wire, 0) = 129
          /\ TextLen < 126 =>
                /\ ByteAt(codec.wire, 1) = TextLen
                /\ RLen(codec.wire) = 2 + TextLen
          /\ (126 <= TextLen /\ TextLen <= 65535) =>
                /\ ByteAt(codec.wire, 1) = 126
                /\ 256 * ByteAt(codec.wire, 2) + ByteAt(codec.wire, 3) = TextLen
                /\ RLen(codec.wire) = 4 + TextLen
          /\ TextLen >= 65536 =>
                /\ ByteAt(codec.wire, 1) = 127
                /\ \A i \in 2..6 : ByteAt(codec.wire, i) = 0
                /\ 65536 * ByteAt(codec.wire, 7) + 256 * ByteAt(codec.wire, 8)
                      + ByteAt(codec.wire, 9) = TextLen
                /\ RLen(codec.wire) = 10 + TextLen
    /\ CodecDone =>
          /\ codec.res.exc = "none"
          /\ RLen(Utf8Encode(codec.res.ret)) = TextLen
          /\ codec.res.rest = <<>>

C31_Witness ==
    /\ CodecDone
    /\ codec.enc = "send"
    /\ codec.sflavour = "async"
    /\ TextLen = 126
    /\ ByteAt(codec.wire, 1) = 126
    /\ ByteAt(codec.wire, 2) = 0
    /\ ByteAt(codec.wire, 3) = 126
    /\ RLen(Utf8Encode(codec.res.ret)) = 126

\* ---------------------------------------- properties of the two flavours
\* the frame on the wire, whole, as a recv() finds it
WholeFrame == Stream(codec.wire, FALSE, FALSE, 0)

\* C32: the two flavours have the same wire semantics: the two send
\* methods write the same bytes for a text, and on a whole frame, masked or
\* not, the two recv methods return the same text, raise nothing and leave
\* open and the unread bytes in the same state.
C32_SameWire ==
    /\ codec.stage # "off" =>
          Send(codec.text) = AsyncSend(codec.text)
    /\ (codec.stage # "input" /\ codec.enc = "send") =>
          /\ codec.wire = Send(codec.text)
          /\ codec.wire = AsyncSend(codec.text)
    /\ codec.stage \in {"wire", "done"} =>
          /\ Recv(WholeFrame) = AsyncRecv(WholeFrame)
          /\ Recv(WholeFrame).exc = "none"
          /\ ~Recv(WholeFrame).disc
    /\ CodecDone => codec.res = Recv(WholeFrame)

C32_Witness ==
    /\ CodecDone
    /\ codec.sflavour = "async"
    /\ codec.rflavour = "sync"
    /\ codec.enc = "send"
    /\ TextLen = 65535
    /\ codec.res = AsyncRecv(WholeFrame)
    /\ codec.res.ret = codec.text

\* ------------------------------------------- the lent counter, the scope
\* C33 (as claimed): in every reachable state the lent counter self._used
\* equals the number of Transports in callers' hands, also after a caller
\* closed its Transport through the wrapper's close() and left the scope.
C33_Orig == used = Cardinality(Lent)

\* C34 (as claimed): the lent counter self._used is never negative, whatever
\* the interleaving of acquire, release and closeall, and the number of
\* Transports in callers' hands stays at most max_size.
C34_Orig ==
    /\ used >= 0
    /\ Cardinality(Lent) <= max_size

\* C35: the pool mutex is held only by a thread that is inside one of the
\* `with self._lock:` bodies and running: never by a caller that sleeps in
\* the saturated wait, never after connection() returned or raised, never
\* by a caller outside the pool's methods.  Hence a held mutex is always
\* released again, so that _release and closeall can obtain it, and no
\* state is reached in which the mutex is held and its holder cannot move.
C35_MutexDiscipline ==
    /\ [](\A c \in Callers :
            /\ pc[c] \in {"idle", "holding", "sleeping"} => lock # c
            /\ pc[c] \in {"acq_decide", "acq_retry", "rel_body", "ca_body"} => lock = c)
    /\ [][\A c \in Callers :
            (DecisionStep(c) /\ pc'[c] \in {"idle", "holding", "sleeping"}) =>
                lock' = Free
         ]_vars
    /\ ((lock # Free) ~> (lock = Free))

C35_Witness ==
    \E c, d \in Callers :
        /\ pc[c] = "sleeping"
        /\ pc[d] = "rel_body"
        /\ lock = d
        /\ last.op = "exit_error"
        /\ used = max_size

\* ------------------------------------- the accept loop and bad handshakes
\* C36 (as claimed): a failure of one client's handshake never terminates
\* the accept loop (the loop ends only by the shutdown flag, with no
\* exception) and never stalls it (while _handshake runs after the flag was
\* set, no more than one poll interval passes).
C36_Orig ==
    /\ srv.state = "stopped" => (srv.shutdown /\ srv.exc = "none")
    /\ (srv.state = "handshake" /\ srv.shutdown) => srv.late <= 1

\* C37: the scoped form `with pool.connection() as conn:` releases its
\* Transport exactly once on every exit of the scope, normal or by an
\* exception of the body (the body holds the socket, not the wrapper, so
\* the wrapper is not closed): leaving the scope enters _release with the
\* Transport still held and nothing changed, and _release appends that
\* Transport to the idle set without closing it, takes one off the lent
\* count and leaves the caller with nothing to release again.
C37_ScopedRelease ==
    /\ [][\A c \in Callers :
            /\ (pc[c] = "holding" /\ ~wclosed[c] /\ pc'[c] # "holding") =>
                  /\ pc'[c] = "rel_body"
                  /\ last'.op \in {"exit", "exit_error"}
                  /\ held'[c] = held[c]
                  /\ <<pool', used', closed'>> = <<pool, used, closed>>
            /\ (pc[c] = "rel_body" /\ pc'[c] # "rel_body") =>
                  /\ pc'[c] = "idle"
                  /\ held'[c] = NoConn
                  /\ pool' = Append(pool, <<held[c], now>>)
                  /\ used' = used - 1
                  /\ closed' = closed
         ]_vars
    /\ [](\A c \in Callers :
            /\ pc[c] = "rel_body" => (held[c] # NoConn /\ ~wclosed[c])
            /\ pc[c] = "idle" => held[c] = NoConn)

C37_Witness ==
    /\ last = Op("release", {}, 1)
    /\ used = 0
    /\ Lent = {}
    /\ Len(pool) = 1
    /\ pool[1][1] \notin closed

\* ------------------------------------ the socket of a failed client handshake
\* C38 (as claimed): when the client-role handshake fails, the socket the
\* call opened is closed by the time the error reaches the caller.
C38_Orig ==
    (hs.stage = "cdone" /\ hs.out = "ConnectionError") => hs.sock = "closed"

(***************************************************************************)
(* One connection whose peer also sends close frames.                      *)
(***************************************************************************)
\* the close frames a peer sends: b"\x88\x00", as close() writes it, and
\* the masked form of a client, b"\x88\x80" and a key
PeerCloseFrames == {CloseFrame, Lit(<<136, 128, 55, 250, 33, 61>>)}

\* a close frame of the peer arrives; the peer's Transport stays open
PeerSendClose(s) == \E f \in PeerCloseFrames : PeerSend(s, f)

CloseFrameNext == SessionNext \/ PeerSendClose(1)

CloseFrameSpec == WsInit /\ [][CloseFrameNext]_vars

\* the unread bytes of connection c start with a close frame (opcode 8,
\* payload length 0)
CloseFrameFirst(c) ==
    /\ RLen(c.inbuf) >= 2
    /\ ByteAt(c.inbuf, 0) = 136
    /\ ByteAt(c.inbuf, 1) % 128 = 0

\* C39: self.open changes to false only in a recv() whose first read
\* returns no bytes (nothing unread at end of stream) or in a local
\* close(); what a received frame holds never changes it: a recv() that
\* reads a close frame returns the empty text, raises nothing, and leaves
\* open (still true if it was) and the Transport as they were.
C39_OpenOnlyByEofOrClose ==
    [][\A s \in Sessions :
          /\ (ws[s].kind # "none" /\ ws[s].open /\ ~ws'[s].open) =>
                /\ wlast'.s = s
                /\ \/ wlast'.op = "close"
                   \/ /\ wlast' = Call(s, "recv", EmptyText, "none", NoBytes, FALSE)
                      /\ ws[s].inbuf = <<>>
                      /\ ws[s].eof
          /\ (CloseFrameFirst(ws[s]) /\ RLen(ws'[s].inbuf) < RLen(ws[s].inbuf)) =>
                /\ wlast' = Call(s, "recv", EmptyText, "none", NoBytes, FALSE)
                /\ ws'[s].open = ws[s].open
                /\ ws'[s].sock = ws[s].sock
                /\ Flat(ws'[s].inbuf) = Flat(Drop(ws[s].inbuf, FrameLen(ws[s].inbuf)))
      ]_vars

C39_Witness ==
    /\ wlast = Call(1, "recv", EmptyText, "none", NoBytes, FALSE)
    /\ ws[1].open
    /\ ws[1].sock = "open"
    /\ ~ws[1].eof
    /\ ws[1].inbuf = <<>>

====
